---- MODULE Spec2Model ----
(***************************************************************************)
(* SafetyApp: the pre-pull safety check (app/cli.py main, saftey.py main), *)
(* the safe-save checkpoint flow (app/cli.py safe_save) and the command    *)
(* dispatcher (app/__main__.py main), run against a git working copy.      *)
(*                                                                         *)
(* Text is a sequence of one-character strings, so that strip(), int() and *)
(* strftime() are computed character by character.                         *)
(***************************************************************************)
EXTENDS Integers, Sequences, FiniteSets, TLC

\* ------------------------------------------------------------- bounds
\* git rev-list reports between 0 and MaxBehind commits behind the upstream.
MaxBehind == 1
\* git checkout -b succeeds only while fewer than MaxBranches branches exist.
MaxBranches == 3
\* The clock instants sampled are 0..MaxSec and the instant one fold later.
MaxSec == 1
\* At most MaxStreak consecutive clean safe-save runs are counted.
MaxStreak == 2

\* The files of the working tree, by number.
Files == {1, 2}

\* ------------------------------------------------------------- text
Whitespace == {" ", "\n", "\t"}
DigitChars == <<"0", "1", "2", "3", "4", "5", "6", "7", "8", "9">>

RECURSIVE LStrip(_)
LStrip(s) ==
    IF s # <<>> /\ Head(s) \in Whitespace THEN LStrip(Tail(s)) ELSE s

RECURSIVE RStrip(_)
RStrip(s) ==
    IF s # <<>> /\ s[Len(s)] \in Whitespace
    THEN RStrip(SubSeq(s, 1, Len(s) - 1))
    ELSE s

\* str.strip()
Strip(s) == RStrip(LStrip(s))

\* The decimal digits of n >= 0, as str(n) writes them.
RECURSIVE Decimal(_)
Decimal(n) ==
    IF n < 10 THEN <<DigitChars[n + 1]>>
    ELSE Decimal(n \div 10) \o <<DigitChars[(n % 10) + 1]>>

DigitValue(c) == CHOOSE d \in 0..9 : DigitChars[d + 1] = c

IsDigit(c) == \E d \in 0..9 : DigitChars[d + 1] = c

RECURSIVE DigitsValue(_)
DigitsValue(s) ==
    IF s = <<>> THEN 0
    ELSE 10 * DigitsValue(SubSeq(s, 1, Len(s) - 1)) + DigitValue(s[Len(s)])

\* int(text) on the outputs git writes: digits, or ValueError (-1).
ValueError == 0 - 1
ParseInt(s) ==
    IF s # <<>> /\ \A i \in 1..Len(s) : IsDigit(s[i])
    THEN DigitsValue(s)
    ELSE ValueError

\* n written in at least w digits, zero padded (strftime's %m %d %H %M %S, %Y).
RECURSIVE ZeroPad(_, _)
ZeroPad(s, w) == IF Len(s) < w THEN ZeroPad(<<"0">> \o s, w) ELSE s

NoPad(n, w) == Decimal(n)

Padded(n, w) == ZeroPad(Decimal(n), w)

\* ------------------------------------------------------------- the clock
\* datetime.now() reads the local wall clock.  Instant t is t seconds after
\* the first sampled instant; the zone falls back by Zone.fold seconds at
\* instant Zone.at (end of daylight saving time).
Epoch == [year |-> 2025, month |-> 11, day |-> 2, second |-> 7198]
Zone == [at |-> 2, fold |-> 3600]

TimePoints == (0..MaxSec) \cup {Zone.fold}

LocalSecond(t) == Epoch.second + t - (IF t >= Zone.at THEN Zone.fold ELSE 0)

\* The naive local datetime that datetime.now() returns at instant t.
DatetimeNow(t) ==
    LET s == LocalSecond(t)
    IN  [year |-> Epoch.year, month |-> Epoch.month,
         day |-> Epoch.day + (s \div 86400),
         hour |-> (s \div 3600) % 24,
         minute |-> (s % 3600) \div 60,
         second |-> s % 60]

\* datetime.strftime("%Y%m%d-%H%M%S")
Strftime(d) ==
    Padded(d.year, 4) \o Padded(d.month, 2) \o Padded(d.day, 2) \o <<"-">>
    \o Padded(d.hour, 2) \o Padded(d.minute, 2) \o Padded(d.second, 2)

SafetyPrefix == <<"s", "a", "f", "e", "t", "y", "/">>

\* f"safety/{timestamp}"
SafetyBranchName(d) == SafetyPrefix \o Strftime(d)

\* ------------------------------------------------------------- git output
MainBranch == <<"m", "a", "i", "n">>
DevBranch == <<"d", "e", "v">>

\* One line of `git status --porcelain` for a changed file.
PorcelainLine(f) == <<" ", "M", " ", "f">> \o Decimal(f) \o <<"\n">>

RECURSIVE Porcelain(_)
Porcelain(S) ==
    IF S = {} THEN <<>>
    ELSE LET f == CHOOSE x \in S : \A y \in S : x <= y
         IN  PorcelainLine(f) \o Porcelain(S \ {f})

\* `git rev-list --count` writes the count and a newline.
RevListCount(n) == Decimal(n) \o <<"\n">>

\* `git rev-parse --abbrev-ref HEAD` writes the branch name and a newline.
AbbrevRef(b) == b \o <<"\n">>

\* ------------------------------------------------------------- subprocess
\* An external call ends "ok" (exit status 0), "nonzero", or "absent" (the
\* git executable is not found).
Outcomes == {"ok", "nonzero", "absent"}

\* What subprocess.run raises for an outcome.
Raised(res, check) ==
    IF res = "absent" THEN "FileNotFoundError"
    ELSE IF res = "nonzero" /\ check THEN "CalledProcessError"
    ELSE "none"

\* The except clauses of each try block.
OnlyCalledProcessError == {"CalledProcessError"}

OnlyFileNotFoundError == {"FileNotFoundError"}

\* A call made outside any try block.
NothingCaught == {}

CheckIfGitRepoCaught == {"CalledProcessError", "FileNotFoundError"}

HasUnsavedWorkCaught == {"CalledProcessError"}

UpstreamCaught == {"CalledProcessError"}

FetchCaught == {"CalledProcessError"}

CountCaught == {"CalledProcessError", "ValueError"}

BranchReadCaught == {"CalledProcessError"}

CreateCaught == {"CalledProcessError"}

SaveCaught == {"CalledProcessError"}

SwitchCaught == {"CalledProcessError"}

\* len(result.stdout.strip()) > 0
HasOutputAlways(stdout) == Len(stdout) >= 0

HasOutput(stdout) == Len(Strip(stdout)) > 0

\* ------------------------------------------------------------- printed text
Line(t) == [text |-> t, arg |-> <<>>]
LineArg(t, a) == [text |-> t, arg |-> a]

USAGE == "Usage:\n  python3 -m app install\n  python3 -m app pre-pull\n  python3 -m app safe-save"
NotARepo == "Not a git repo"
DoNot == "Decision: Do NOT get updates yet"
Warning == "Warning: You have unsaved work. Getting teammate updates right now could be risky."
SafeToGet == "Safe to get teammate updates"
NoTracking == "No remote tracking branch set"
UpdatesYes == "Teammate updates available: yes"
UpdatesNo == "Teammate updates available: no"
DecisionSafe == "Decision: Safe to get updates"
NoChanges == "No changes to save"
ErrCreate == "Error: Could not create safety branch"
ErrSave == "Error: Could not save changes"
ErrSwitch == "Error: Could not switch back to original branch"
Created == "Safety checkpoint created: "
CommitMessage == "Safety checkpoint"

Texts(o) == {o[i].text : i \in 1..Len(o)}

\* ------------------------------------------------------------- dispatcher
\* The functions module app.cli defines, each with its number of positional
\* parameters.
CliFunctions ==
    [check_if_git_repo |-> 0, has_unsaved_work |-> 0,
     check_teammate_updates |-> 0, main |-> 0, safe_save |-> 0]

Returned(o, r) == [out |-> o, ret |-> r, exc |-> "none", target |-> "none"]

\* cli.<attr>(argv[2:]): the attribute lookup, then the call with one argument.
Invoke(attr) ==
    IF attr \notin DOMAIN CliFunctions
    THEN [out |-> <<>>, ret |-> 1, exc |-> "AttributeError", target |-> "none"]
    ELSE IF CliFunctions[attr] # 1
    THEN [out |-> <<>>, ret |-> 1, exc |-> "TypeError", target |-> "none"]
    ELSE [out |-> <<>>, ret |-> 0, exc |-> "none", target |-> attr]

HelpTokens == {"-h", "--help", "help"}

\* The routing on argv[1].
DispatchCommand(cmd) ==
    IF cmd = "install" THEN Invoke("install")
    ELSE IF cmd = "pre-pull" THEN Invoke("pre_pull")
    ELSE IF cmd = "safe-save" THEN Invoke("safe_save")
    ELSE IF cmd \in HelpTokens THEN Returned(<<Line(USAGE)>>, 0)
    ELSE Returned(<<LineArg("Unknown command: ", <<cmd>>), Line(USAGE)>>, 2)

\* The length test written len(argv) < 1: argv[1] is then read out of range.
MainDispatchOffByOne(a) ==
    IF Len(a) < 1 THEN Returned(<<Line(USAGE)>>, 2)
    ELSE IF Len(a) < 2
    THEN [out |-> <<>>, ret |-> 1, exc |-> "IndexError", target |-> "none"]
    ELSE DispatchCommand(a[2])

\* __main__.main(argv)
MainDispatch(a) ==
    IF Len(a) < 2 THEN Returned(<<Line(USAGE)>>, 2)
    ELSE DispatchCommand(a[2])

Tokens == {"install", "pre-pull", "safe-save", "-h", "--help", "help", "status", ""}

\* sys.argv of `python3 -m app ...`
Argvs ==
    {<<"app">>} \cup {<<"app", c>> : c \in Tokens}
    \cup {<<"app", c, "x">> : c \in {"pre-pull", "status"}}

\* ------------------------------------------------------------- state
VARIABLES
    branches,         \* the repository: branch name -> its head commit
    current,          \* the checked-out branch
    changes,          \* files with uncommitted changes (staged or not)
    staged,           \* the files of them that are in the index
    commits,          \* commit number -> [parent, msg, files]
    now,              \* the clock instant
    generated,        \* the safety-branch name this run generated, with its time
    previous,         \* the one generated before it
    pc,               \* position of the running flow
    flow,             \* the function that is running
    argv,             \* the arguments the dispatcher was started with
    out,              \* the lines printed by the run
    exit,             \* the exit status of the run
    exc,              \* the exception that ended the run, if any
    calls,            \* the external calls of the run, in order
    original_branch,  \* safe_save's local
    safety_branch,    \* safe_save's local
    start,            \* the repository when the run started
    cleanStreak,      \* consecutive safe-save runs that found nothing to save
    streakBase,       \* the repository when the first of them started
    checkpointed      \* the run before this one was a full safe-save

repoVars == <<branches, current, changes, staged, commits>>
localVars == <<original_branch, safety_branch>>
streakVars == <<cleanStreak, streakBase>>
vars ==
    <<branches, current, changes, staged, commits, now, generated, previous,
      pc, flow, argv, out, exit, exc, calls, original_branch,
      safety_branch, start, cleanStreak, streakBase,
      checkpointed>>

Repo ==
    [branches |-> branches, current |-> current, changes |-> changes,
     staged |-> staged, commits |-> commits]

NoExit == 0 - 1
NoName ==
    [t |-> 0 - 1,
     local |-> [year |-> 0, month |-> 0, day |-> 0, hour |-> 0, minute |-> 0,
                second |-> 0],
     name |-> <<>>]
NoBranch == <<>>
Rest == {"idle", "done", "crashed"}
Ended == {"done", "crashed"}
PrePullFlows == {"main", "saftey.main"}

InitialBranchSets == {{MainBranch, DevBranch}, {DevBranch}}

\* No snapshot is held while no run is under way.
NoRepo ==
    [branches |-> <<>>, current |-> NoBranch, changes |-> {}, staged |-> {},
     commits |-> <<>>]

Init ==
    /\ \E bs \in InitialBranchSets :
          /\ branches = [b \in bs |-> 1]
          /\ current \in bs
    /\ changes \in SUBSET Files
    /\ staged = {}
    /\ commits = <<[parent |-> 0, msg |-> "Initial commit", files |-> {}]>>
    /\ now = 0
    /\ generated = NoName
    /\ previous = NoName
    /\ pc = "idle"
    /\ flow = "none"
    /\ argv = <<>>
    /\ out = <<>>
    /\ exit = NoExit
    /\ exc = "none"
    /\ calls = <<>>
    /\ original_branch = NoBranch
    /\ safety_branch = NoBranch
    /\ start = NoRepo
    /\ cleanStreak = 0
    /\ streakBase = NoRepo
    /\ checkpointed = FALSE

\* ------------------------------------------------------------- helpers
Call(cmd, res, stdout) ==
    [cmd |-> cmd, res |-> res, stdout |-> stdout, arg |-> <<>>]

\* A call whose last argument is a branch name.
CallOn(cmd, name, res) ==
    [cmd |-> cmd, res |-> res, stdout |-> <<>>, arg |-> name]

Cmds(cs) == {cs[i].cmd : i \in 1..Len(cs)}

Issued(cmd) == cmd \in Cmds(calls)

\* A new run begins: a fresh process, nothing called yet.
Begin(f, a) ==
    /\ pc = "idle"
    /\ flow' = f
    /\ argv' = a
    /\ calls' = <<>>
    /\ original_branch' = NoBranch
    /\ safety_branch' = NoBranch
    /\ start' = Repo
    /\ UNCHANGED checkpointed

\* sys.exit(status) after printing `lines`, or the return of the flow (0).
Finish(c, lines, status) ==
    /\ calls' = Append(calls, c)
    /\ out' = out \o lines
    /\ exit' = status
    /\ pc' = "done"
    /\ UNCHANGED <<exc, flow, argv, start, checkpointed>>

\* An exception no except clause catches: traceback, exit status 1.
Crash(c, e) ==
    /\ calls' = Append(calls, c)
    /\ exc' = e
    /\ exit' = 1
    /\ pc' = "crashed"
    /\ UNCHANGED <<out, flow, argv, start, checkpointed>>

\* The flow goes on to its next external call.
Goto(c, lines, next) ==
    /\ calls' = Append(calls, c)
    /\ out' = out \o lines
    /\ pc' = next
    /\ UNCHANGED <<exit, exc, flow, argv, start, checkpointed>>

\* ------------------------------------------------------------- environment
\* No run is under way, and nothing of the last one is left.
NoRun ==
    /\ pc' = "idle"
    /\ flow' = "none"
    /\ argv' = <<>>
    /\ out' = <<>>
    /\ exit' = NoExit
    /\ exc' = "none"
    /\ calls' = <<>>
    /\ original_branch' = NoBranch
    /\ safety_branch' = NoBranch
    /\ start' = NoRepo
    /\ generated' = NoName
    /\ previous' = IF generated # NoName THEN generated ELSE previous

\* The process of the run ends and the shell is back at its prompt.
ProcessExit ==
    /\ pc \in Ended
    /\ NoRun
    /\ checkpointed' = (flow = "safe_save" /\ pc = "done" /\ exit = 0
                            /\ Created \in Texts(out))
    /\ UNCHANGED <<repoVars, now, streakVars>>

\* Something else than safe-save happens at the prompt.
Idle ==
    /\ pc = "idle"
    /\ NoRun
    /\ checkpointed' = FALSE
    /\ cleanStreak' = 0
    /\ streakBase' = NoRepo

\* The user edits a file between two runs.
UserEdit ==
    /\ Idle
    /\ \E f \in Files : f \notin changes /\ changes' = changes \cup {f}
    /\ UNCHANGED <<branches, current, staged, commits, now>>

\* Time passes between two runs.
ClockTick ==
    /\ Idle
    /\ \E t \in TimePoints : t > now /\ now' = t
    /\ UNCHANGED repoVars

\* ------------------------------------------------------------- __main__.py
\* python3 -m app <argv>: raise SystemExit(main(sys.argv)).
Dispatch ==
    /\ \E a \in Argvs :
          LET r == MainDispatch(a)
          IN  /\ Begin(IF r.target = "none" THEN "__main__" ELSE r.target, a)
              /\ out' = r.out
              /\ exc' = r.exc
              /\ IF r.target # "none"
                 THEN pc' = "repo" /\ exit' = NoExit
                 ELSE /\ exit' = r.ret
                      /\ pc' = IF r.exc = "none" THEN "done" ELSE "crashed"
    /\ cleanStreak' = 0
    /\ streakBase' = NoRepo
    /\ UNCHANGED <<repoVars, now, generated, previous>>

\* ------------------------------------------------------------- the flows
\* cli.main() or saftey.main() is called.
StartPrePull ==
    /\ \E f \in PrePullFlows : Begin(f, <<>>)
    /\ pc' = "repo"
    /\ out' = <<>>
    /\ exit' = NoExit
    /\ exc' = "none"
    /\ cleanStreak' = 0
    /\ streakBase' = NoRepo
    /\ UNCHANGED <<repoVars, now, generated, previous>>

\* cli.safe_save() is called.
StartSafeSave ==
    /\ Begin("safe_save", <<>>)
    /\ cleanStreak < MaxStreak
    /\ pc' = "repo"
    /\ out' = <<>>
    /\ exit' = NoExit
    /\ exc' = "none"
    /\ streakBase' = IF cleanStreak > 0 THEN streakBase ELSE Repo
    /\ UNCHANGED cleanStreak
    /\ UNCHANGED <<repoVars, now, generated, previous>>

\* What each flow prints when check_if_git_repo() returns False.
NotRepoLines(f) ==
    IF f = "main" THEN <<Line(NotARepo), Line(DoNot)>> ELSE <<Line(NotARepo)>>

\* Step 1 of main and of safe_save: check_if_git_repo().
RepoCheck ==
    /\ pc = "repo"
    /\ \E res \in Outcomes :
          LET c == Call("rev-parse --git-dir", res, <<>>)
              e == Raised(res, TRUE)
          IN  IF e = "none" THEN Goto(c, <<>>, "status")
              ELSE IF e \in CheckIfGitRepoCaught
              THEN Finish(c, NotRepoLines(flow), 1)
              ELSE Crash(c, e)
    /\ cleanStreak' = IF pc' = "status" THEN cleanStreak ELSE 0
    /\ UNCHANGED <<repoVars, now, generated, previous, localVars, streakBase>>

\* What main prints when has_unsaved_work() returns True.
UnsavedLines(f) ==
    IF f = "main" THEN <<Line(Warning), Line(DoNot)>> ELSE <<Line(Warning)>>

\* Step 2 of main: has_unsaved_work().
PrePullStatus ==
    /\ pc = "status"
    /\ flow \in PrePullFlows
    /\ \E res \in Outcomes :
          LET stdout == IF res = "ok" THEN Porcelain(changes) ELSE <<>>
              c == Call("status --porcelain", res, stdout)
              e == Raised(res, TRUE)
          IN  IF e = "none"
              THEN IF HasOutput(stdout)
                   THEN Finish(c, UnsavedLines(flow), 1)
                   ELSE Goto(c, <<Line(SafeToGet)>>, "upstream")
              ELSE IF e \in HasUnsavedWorkCaught
              THEN Finish(c, UnsavedLines(flow), 1)
              ELSE Crash(c, e)
    /\ UNCHANGED <<repoVars, now, generated, previous, localVars, streakVars>>

\* Step 4 of cli.main; saftey.main ends after check_teammate_updates().
FinalLines(f) == IF f = "main" THEN <<Line(DecisionSafe)>> ELSE <<>>

\* check_teammate_updates(): the tracking branch is resolved.
Upstream ==
    /\ pc = "upstream"
    /\ \E res \in Outcomes :
          LET c == Call("rev-parse @{upstream}", res, <<>>)
              e == Raised(res, TRUE)
          IN  IF e = "none" THEN Goto(c, <<>>, "fetch")
              ELSE IF e \in UpstreamCaught
              THEN Finish(c, <<Line(NoTracking)>> \o FinalLines(flow), 0)
              ELSE Crash(c, e)
    /\ UNCHANGED <<repoVars, now, generated, previous, localVars, streakVars>>

\* `git pull` in the place of the fetch: the current branch gains the
\* upstream's commit.
FetchAndMerge ==
    /\ pc = "fetch"
    /\ \E res \in Outcomes :
          LET c == Call("fetch", res, <<>>)
              e == Raised(res, TRUE)
          IN  /\ IF e = "none" \/ e \in FetchCaught
                 THEN Goto(c, <<>>, "count")
                 ELSE Crash(c, e)
              /\ IF res = "ok"
                 THEN /\ commits' = Append(commits,
                            [parent |-> branches[current],
                             msg |-> "upstream", files |-> {}])
                      /\ branches' =
                            [branches EXCEPT ![current] = Len(commits) + 1]
                 ELSE UNCHANGED <<branches, commits>>
    /\ UNCHANGED <<current, changes, staged, now, generated, previous,
                   localVars, streakVars>>

\* A fetch that is tried again after a non-zero exit.
FetchRetried ==
    /\ pc = "fetch"
    /\ \E res \in Outcomes :
          LET c == Call("fetch", res, <<>>)
              e == Raised(res, TRUE)
          IN  IF e = "none" THEN Goto(c, <<>>, "count")
              ELSE IF e \in FetchCaught THEN Goto(c, <<>>, "fetch")
              ELSE Crash(c, e)
    /\ UNCHANGED <<repoVars, now, generated, previous, localVars, streakVars>>

\* check_teammate_updates(): git fetch; its failure is passed over.
Fetch ==
    /\ pc = "fetch"
    /\ \E res \in Outcomes :
          LET c == Call("fetch", res, <<>>)
              e == Raised(res, TRUE)
          IN  IF e = "none" \/ e \in FetchCaught
              THEN Goto(c, <<>>, "count")
              ELSE Crash(c, e)
    /\ UNCHANGED <<repoVars, now, generated, previous, localVars, streakVars>>

\* The line printed for a behind count.
UpdatesLine(n) == IF n > 0 THEN Line(UpdatesYes) ELSE Line(UpdatesNo)

\* check_teammate_updates(): git rev-list --count HEAD..@{upstream}, which
\* writes the number of commits the upstream is ahead.
Count ==
    /\ pc = "count"
    /\ \E res \in Outcomes, behind \in 0..MaxBehind :
          /\ res # "ok" => behind = 0
          /\ LET stdout == IF res = "ok" THEN RevListCount(behind) ELSE <<>>
                 c == Call("rev-list --count", res, stdout)
                 n == ParseInt(Strip(stdout))
                 e == IF Raised(res, TRUE) # "none" THEN Raised(res, TRUE)
                      ELSE IF n = ValueError THEN "ValueError"
                      ELSE "none"
             IN  IF e = "none"
                 THEN Finish(c, <<UpdatesLine(n)>> \o FinalLines(flow), 0)
                 ELSE IF e \in CountCaught
                 THEN Finish(c, <<Line(UpdatesNo)>> \o FinalLines(flow), 0)
                 ELSE Crash(c, e)
    /\ UNCHANGED <<repoVars, now, generated, previous, localVars, streakVars>>

\* Step 2 of safe_save: has_unsaved_work().
SafeSaveStatus ==
    /\ pc = "status"
    /\ flow = "safe_save"
    /\ \E res \in Outcomes :
          LET stdout == IF res = "ok" THEN Porcelain(changes) ELSE <<>>
              c == Call("status --porcelain", res, stdout)
              e == Raised(res, TRUE)
          IN  IF e = "none"
              THEN IF HasOutput(stdout)
                   THEN Goto(c, <<>>, "branch")
                   ELSE Finish(c, <<Line(NoChanges)>>, 0)
              ELSE IF e \in HasUnsavedWorkCaught
              THEN Goto(c, <<>>, "branch")
              ELSE Crash(c, e)
    /\ cleanStreak' = IF pc' = "done" THEN cleanStreak + 1 ELSE 0
    /\ UNCHANGED <<repoVars, now, generated, previous, localVars, streakBase>>

\* The captured name when the read result is not used.
OriginalBranchDefault(res, stdout) == MainBranch

\* Step 3 of safe_save: the captured branch name, "main" when the read failed.
OriginalBranch(res, stdout) ==
    IF Raised(res, TRUE) = "none" THEN Strip(stdout) ELSE MainBranch

\* Steps 3 and 4 of safe_save: the branch name is read, then the safety
\* branch name is made from the clock.
BranchRead ==
    /\ pc = "branch"
    /\ \E res \in Outcomes :
          LET stdout == IF res = "ok" THEN AbbrevRef(current) ELSE <<>>
              c == Call("rev-parse HEAD", res, stdout)
              e == Raised(res, TRUE)
              d == DatetimeNow(now)
          IN  IF e = "none" \/ e \in BranchReadCaught
              THEN /\ Goto(c, <<>>, "create")
                   /\ original_branch' = OriginalBranch(res, stdout)
                   /\ safety_branch' = SafetyBranchName(d)
                   /\ generated' =
                         [t |-> now, local |-> d, name |-> SafetyBranchName(d)]
              ELSE /\ Crash(c, e)
                   /\ UNCHANGED <<localVars, generated>>
    /\ UNCHANGED <<repoVars, now, previous, streakVars>>

\* `git branch <name>`: the branch is made but not switched to.
GitBranch(bs, cur, name) ==
    [branches |-> [b \in DOMAIN bs \cup {name} |->
                      IF b = name THEN bs[cur] ELSE bs[b]],
     current |-> cur]

\* `git checkout -b <name>`: a new branch at HEAD, checked out.
GitCheckoutB(bs, cur, name) ==
    [branches |-> [b \in DOMAIN bs \cup {name} |->
                      IF b = name THEN bs[cur] ELSE bs[b]],
     current |-> name]

\* Step 5 of safe_save: git checkout -b <safety_branch>.
CreateBranch ==
    /\ pc = "create"
    /\ \E res \in Outcomes :
          /\ res = "ok" => /\ safety_branch \notin DOMAIN branches
                           /\ Cardinality(DOMAIN branches) < MaxBranches
          /\ LET c == CallOn("checkout -b", safety_branch, res)
                 e == Raised(res, TRUE)
                 g == GitCheckoutB(branches, current, safety_branch)
             IN  IF e = "none"
                 THEN /\ Goto(c, <<>>, "add")
                      /\ branches' = g.branches
                      /\ current' = g.current
                 ELSE /\ IF e \in CreateCaught
                         THEN Finish(c, <<Line(ErrCreate)>>, 1)
                         ELSE Crash(c, e)
                      /\ UNCHANGED <<branches, current>>
    /\ cleanStreak' = 0
    /\ UNCHANGED <<changes, staged, commits, now,
                   generated, previous, localVars, streakBase>>

\* `git add -u` in the place of `git add -A`: only file 1, the tracked one,
\* is staged.
AddTracked ==
    /\ pc = "add"
    /\ \E res \in Outcomes :
          LET c == Call("add -A", res, <<>>)
              e == Raised(res, TRUE)
          IN  /\ IF e = "none" THEN Goto(c, <<>>, "commit")
                 ELSE IF e \in SaveCaught THEN Goto(c, <<>>, "rollback")
                 ELSE Crash(c, e)
              /\ staged' = IF res = "ok" THEN changes \cap {1} ELSE staged
    /\ UNCHANGED <<branches, current, changes, commits, now, generated,
                   previous, localVars, streakVars>>

\* Step 6 of safe_save: git add -A.
Add ==
    /\ pc = "add"
    /\ \E res \in Outcomes :
          LET c == Call("add -A", res, <<>>)
              e == Raised(res, TRUE)
          IN  /\ IF e = "none" THEN Goto(c, <<>>, "commit")
                 ELSE IF e \in SaveCaught THEN Goto(c, <<>>, "rollback")
                 ELSE Crash(c, e)
              /\ staged' = IF res = "ok" THEN changes ELSE staged
    /\ UNCHANGED <<branches, current, changes, commits, now, generated,
                   previous, localVars, streakVars>>

\* Step 6 of safe_save: git commit -m "Safety checkpoint".
Commit ==
    /\ pc = "commit"
    /\ \E res \in Outcomes :
          /\ res = "ok" => staged # {}
          /\ LET c == Call("commit", res, <<>>)
                 e == Raised(res, TRUE)
             IN  IF e = "none"
                 THEN /\ Goto(c, <<>>, "switch")
                      /\ commits' = Append(commits,
                            [parent |-> branches[current],
                             msg |-> CommitMessage, files |-> staged])
                      /\ branches' =
                            [branches EXCEPT ![current] = Len(commits) + 1]
                      /\ changes' = changes \ staged
                      /\ staged' = {}
                 ELSE /\ IF e \in SaveCaught THEN Goto(c, <<>>, "rollback")
                         ELSE Crash(c, e)
                      /\ UNCHANGED <<branches, changes, staged, commits>>
    /\ UNCHANGED <<current, now, generated, previous, localVars,
                   streakVars>>

\* The except branch of step 6: git checkout <original_branch>, unchecked.
Rollback ==
    /\ pc = "rollback"
    /\ \E res \in Outcomes :
          /\ res = "ok" => original_branch \in DOMAIN branches
          /\ LET c == CallOn("checkout", original_branch, res)
                 e == Raised(res, FALSE)
             IN  /\ IF e = "none" THEN Finish(c, <<Line(ErrSave)>>, 1)
                    ELSE Crash(c, e)
                 /\ current' = IF res = "ok" THEN original_branch ELSE current
    /\ UNCHANGED <<branches, changes, staged, commits,
                   now, generated, previous, localVars, streakVars>>

\* Steps 7 and 8 of safe_save: git checkout <original_branch>.
SwitchBack ==
    /\ pc = "switch"
    /\ \E res \in Outcomes :
          /\ res = "ok" => original_branch \in DOMAIN branches
          /\ LET c == CallOn("checkout", original_branch, res)
                 e == Raised(res, TRUE)
             IN  /\ IF e = "none"
                    THEN Finish(c, <<LineArg(Created, safety_branch)>>, 0)
                    ELSE IF e \in SwitchCaught
                    THEN Finish(c, <<Line(ErrSwitch)>>, 1)
                    ELSE Crash(c, e)
                 /\ current' = IF res = "ok" THEN original_branch ELSE current
    /\ UNCHANGED <<branches, changes, staged, commits,
                   now, generated, previous, localVars, streakVars>>

\* ------------------------------------------------------------- specification
Next ==
    \/ ProcessExit
    \/ UserEdit
    \/ ClockTick
    \/ Dispatch
    \/ StartPrePull
    \/ StartSafeSave
    \/ RepoCheck
    \/ PrePullStatus
    \/ Upstream
    \/ Fetch
    \/ Count
    \/ SafeSaveStatus
    \/ BranchRead
    \/ CreateBranch
    \/ Add
    \/ Commit
    \/ Rollback
    \/ SwitchBack

Spec == Init /\ [][Next]_vars

\* ------------------------------------------------------------- types
TypeOK ==
    /\ current \in DOMAIN branches
    /\ staged \subseteq changes
    /\ \A b \in DOMAIN branches : branches[b] \in 1..Len(commits)
    /\ pc \in Rest \cup {"repo", "status", "upstream", "fetch", "count",
                         "branch", "create", "add", "commit", "rollback",
                         "switch"}
    /\ exit \in {NoExit, 0, 1, 2}
    /\ (pc \in Ended <=> exit # NoExit) \/ pc = "idle"

\* ------------------------------------------------------------- claims
Flows == PrePullFlows \cup {"safe_save"}

\* The i-th external call of the run was issued and ended with `res`.
CallEnded(i, cmd, res) ==
    Len(calls) >= i /\ calls[i].cmd = cmd /\ calls[i].res = res

RepoCheckPassed == CallEnded(1, "rev-parse --git-dir", "ok")

StatusReported == RepoCheckPassed /\ CallEnded(2, "status --porcelain", "ok")

Succeeded(cmd) == \E i \in 1..Len(calls) : calls[i].cmd = cmd /\ calls[i].res = "ok"

\* C1 as stated: a safe-save run that starts with uncommitted changes on
\* branch B and whose stage-and-commit step succeeds ends on B, whatever
\* the other external calls do (taken over the runs that end by the flow's
\* own exit, so that no unhandled exception is involved).
C1_EndsOnOriginalWhateverElse ==
    (pc = "done" /\ flow = "safe_save" /\ start.changes # {}
        /\ Succeeded("commit"))
    => current = start.current

\* C1 amended: a safe-save run that starts with uncommitted changes on
\* branch B and in which the branch-name read, the stage-and-commit step and
\* the final checkout all succeed ends with the current branch equal to B.
C1_EndsOnOriginal ==
    (pc \in Ended /\ flow = "safe_save" /\ start.changes # {}
        /\ Succeeded("rev-parse HEAD") /\ Succeeded("commit")
        /\ Succeeded("checkout"))
    => /\ current = start.current
       /\ original_branch = start.current

C1_Witness ==
    /\ pc = "done" /\ flow = "safe_save" /\ start.changes # {}
    /\ Succeeded("rev-parse HEAD") /\ Succeeded("commit")
    /\ Succeeded("checkout")
    /\ start.current = DevBranch /\ MainBranch \in DOMAIN branches
    /\ current = DevBranch

\* C2: once the stage-and-commit step of a safe-save run has succeeded, the
\* new safety/<timestamp> branch is exactly one commit ahead of the commit
\* that was current at the start, that commit has the message "Safety
\* checkpoint" and holds all the changes uncommitted at the start, and no
\* other branch has gained a commit.
C2_OneCheckpointCommit ==
    (flow = "safe_save" /\ Succeeded("commit"))
    => /\ safety_branch \notin DOMAIN start.branches
       /\ DOMAIN branches = DOMAIN start.branches \cup {safety_branch}
       /\ SubSeq(safety_branch, 1, 7) = <<"s", "a", "f", "e", "t", "y", "/">>
       /\ Len(commits) = Len(start.commits) + 1
       /\ branches[safety_branch] = Len(commits)
       /\ commits[Len(commits)].parent = start.branches[start.current]
       /\ commits[Len(commits)].msg = "Safety checkpoint"
       /\ commits[Len(commits)].files = start.changes
       /\ start.changes # {}
       /\ \A b \in DOMAIN start.branches : branches[b] = start.branches[b]
       /\ \A i \in 1..Len(start.commits) : commits[i] = start.commits[i]

C2_Witness ==
    /\ pc = "done" /\ flow = "safe_save" /\ Succeeded("commit")
    /\ exit = 0
    /\ commits[branches[safety_branch]].files = Files

\* C3: when the repository check fails (non-zero exit or git absent), the
\* pre-pull flow of either variant and safe-save print "Not a git repo",
\* exit with status 1 and issue no external command after that check.
C3_NotARepo ==
    (pc \in Ended /\ flow \in Flows /\ ~RepoCheckPassed)
    => /\ out # <<>>
       /\ out[1].text = "Not a git repo"
       /\ exit = 1
       /\ exc = "none"
       /\ Len(calls) = 1

C3_Witness ==
    /\ pc = "done" /\ flow = "safe_save"
    /\ CallEnded(1, "rev-parse --git-dir", "absent")
    /\ out = <<Line("Not a git repo")>> /\ exit = 1

\* C4: when the status output is non-empty, pre-pull prints the unsaved-work
\* warning and exits 1 without the upstream, fetch or behind-count call, and
\* safe-save goes on to issue the creation of the checkpoint branch.
C4_DirtyShortCircuits ==
    (pc \in Ended /\ flow \in Flows /\ StatusReported /\ calls[2].stdout # <<>>)
    => IF flow \in PrePullFlows
       THEN /\ Warning \in Texts(out)
            /\ exit = 1
            /\ Len(calls) = 2
       ELSE Issued("checkout -b")

\* C5: consecutive safe-save runs on a clean working tree each print "No
\* changes to save", exit 0, issue no checkout, add or commit, and leave the
\* branches, the current branch and every branch head as they were before
\* the first of them.
C5_CleanIsIdempotent ==
    /\ (pc \in Ended /\ flow = "safe_save" /\ StatusReported
            /\ start.changes = {})
       => /\ out = <<Line("No changes to save")>>
          /\ exit = 0
          /\ exc = "none"
          /\ Cmds(calls) = {"rev-parse --git-dir", "status --porcelain"}
          /\ Repo = start
          /\ cleanStreak >= 1
    /\ cleanStreak >= 1 => Repo = streakBase

C5_Witness ==
    /\ pc = "done" /\ flow = "safe_save" /\ cleanStreak = 2
    /\ out = <<Line("No changes to save")>> /\ exit = 0

\* C6: through the dispatcher, `pre-pull` runs the pre-pull flow and
\* `safe-save` runs the checkpoint flow, and the process ends with the
\* status 0 or 1 that the flow decided.
C6_DispatcherRunsFlows ==
    (pc \in Ended /\ Len(argv) >= 2 /\ argv[2] \in {"pre-pull", "safe-save"})
    => /\ exc = "none"
       /\ exit \in {0, 1}
       /\ argv[2] = "pre-pull" => Issued("rev-parse --git-dir")
       /\ argv[2] = "safe-save" => Issued("rev-parse --git-dir")

\* C7 as stated: a missing subcommand, or one that is not pre-pull,
\* safe-save or install, makes the dispatcher print the usage text and
\* return 2 without invoking a flow.
C7_UsageAndTwo ==
    (pc \in Ended /\ Len(argv) >= 1
        /\ (Len(argv) < 2 \/ argv[2] \notin {"pre-pull", "safe-save", "install"}))
    => /\ exit = 2
       /\ out # <<>> /\ out[Len(out)].text = USAGE
       /\ calls = <<>>

\* C7 amended: a missing subcommand, or one that is not pre-pull, safe-save,
\* install or a help token (-h, --help, help), makes the dispatcher print the
\* usage text and return 2 without invoking a flow; a help token makes it
\* print the usage text and return 0.
C7_UsageAndTwoUnlessHelp ==
    (pc \in Ended /\ Len(argv) >= 1
        /\ (Len(argv) < 2 \/ argv[2] \notin {"pre-pull", "safe-save", "install"}))
    => /\ exit = IF Len(argv) >= 2 /\ argv[2] \in {"-h", "--help", "help"}
                 THEN 0 ELSE 2
       /\ exc = "none"
       /\ out # <<>> /\ out[Len(out)].text = USAGE
       /\ calls = <<>>
       /\ flow = "__main__"

C7_Witness ==
    /\ pc = "done" /\ argv = <<"app", "status">> /\ exit = 2
    /\ out[Len(out)].text = USAGE

\* C8: on a clean working tree with no upstream configured, pre-pull prints
\* "No remote tracking branch set", issues neither the fetch nor the
\* behind-count call and ends with exit status 0; the decision variant
\* prints "Decision: Safe to get updates" last.
C8_NoUpstreamIsSafe ==
    (pc \in Ended /\ flow \in PrePullFlows /\ StatusReported
        /\ start.changes = {}
        /\ CallEnded(3, "rev-parse @{upstream}", "nonzero"))
    => /\ "No remote tracking branch set" \in Texts(out)
       /\ ~Issued("fetch")
       /\ ~Issued("rev-list --count")
       /\ exit = 0
       /\ exc = "none"
       /\ flow = "main" => out[Len(out)].text = "Decision: Safe to get updates"

C8_Witness ==
    /\ pc = "done" /\ flow = "main" /\ start.changes = {}
    /\ CallEnded(3, "rev-parse @{upstream}", "nonzero")
    /\ exit = 0 /\ Len(calls) = 3

\* The names generated by this safe-save invocation and by the one before.
Generated == {generated, previous} \ {NoName}

\* safety/YYYYMMDD-HHMMSS
HasSafetyForm(n) ==
    /\ Len(n) = 22
    /\ SubSeq(n, 1, 7) = <<"s", "a", "f", "e", "t", "y", "/">>
    /\ \A i \in (8..15) \cup (17..22) : IsDigit(n[i])
    /\ n[16] = "-"

\* C9 as stated: every generated name has the form safety/YYYYMMDD-HHMMSS,
\* and two invocations at instants in distinct seconds generate distinct
\* names.
C9_DistinctPerInstant ==
    /\ \A g \in Generated : HasSafetyForm(g.name)
    /\ \A g, h \in Generated : g.t # h.t => g.name # h.name

\* C9 amended: every generated name has the form safety/YYYYMMDD-HHMMSS, and
\* two invocations whose local wall-clock readings fall in distinct seconds
\* generate distinct names.
C9_DistinctPerLocalSecond ==
    /\ \A g \in Generated : HasSafetyForm(g.name)
    /\ \A g, h \in Generated : g.local # h.local => g.name # h.name

C9_Witness ==
    \E g, h \in Generated :
        /\ g.local # h.local /\ g.name # h.name
        /\ HasSafetyForm(g.name) /\ HasSafetyForm(h.name)

\* C10: whatever the outcomes of the external calls, every pre-pull and
\* safe-save run ends with a printed message and an exit status 0 or 1 that
\* the flow decided: no failure leaves the flow as an unhandled exception.
C10_NoUnhandledException ==
    (pc \in Ended /\ flow \in Flows)
    => /\ exc = "none"
       /\ exit \in {0, 1}
       /\ out # <<>>

\* Some call of `cmd` in the run did not succeed: git exited non-zero, or
\* the executable was not found.
Failed(cmd) ==
    \E i \in 1..Len(calls) : calls[i].cmd = cmd /\ calls[i].res # "ok"

\* Some call of `cmd` in the run ended with a non-zero exit status.
ExitedNonZero(cmd) ==
    \E i \in 1..Len(calls) : calls[i].cmd = cmd /\ calls[i].res = "nonzero"

LastCall == calls[Len(calls)]

\* C11: when the create-and-switch call for the safety branch fails,
\* safe-save prints "Error: Could not create safety branch", exits with
\* status 1, issues no add, commit or checkout after it, and the current
\* branch, the branches with their heads and the uncommitted changes are as
\* they were at the start of the run.
C11_CreateFailureChangesNothing ==
    (pc \in Ended /\ flow = "safe_save" /\ Failed("checkout -b"))
    => /\ out = <<Line("Error: Could not create safety branch")>>
       /\ exit = 1
       /\ LastCall.cmd = "checkout -b"
       /\ Cmds(calls) \cap {"add -A", "commit", "checkout"} = {}
       /\ Repo = start

\* C11 for the failure that git reports itself (non-zero exit, as when the
\* name made in the same second already exists): the message, the status 1,
\* no later call and an untouched repository.
C11_NonZeroCreateChangesNothing ==
    (pc \in Ended /\ flow = "safe_save" /\ ExitedNonZero("checkout -b"))
    => /\ out = <<Line("Error: Could not create safety branch")>>
       /\ exit = 1
       /\ exc = "none"
       /\ LastCall.cmd = "checkout -b"
       /\ Cmds(calls) \cap {"add -A", "commit", "checkout"} = {}
       /\ Repo = start

\* A second safe-save in the same second: the name exists already.
C11_SameSecond ==
    /\ pc = "done" /\ flow = "safe_save" /\ ExitedNonZero("checkout -b")
    /\ safety_branch \in DOMAIN start.branches
    /\ previous # NoName /\ previous.name = safety_branch

\* How many times `cmd` was issued in the run.
Times(cmd) == Cardinality({i \in 1..Len(calls) : calls[i].cmd = cmd})

\* The git executable was found at every call of the run.
ToolPresent == \A i \in 1..Len(calls) : calls[i].res # "absent"

\* The safety branch is there and no commit was made in the run.
SafetyBranchLeftEmpty ==
    /\ safety_branch \in DOMAIN branches
    /\ branches[safety_branch] = start.branches[start.current]
    /\ commits = start.commits

\* C12: when staging or committing fails after the safety branch was
\* created, safe-save issues exactly one checkout, of the captured original
\* branch, prints "Error: Could not save changes" and exits with status 1
\* whatever the outcome of that checkout, and the safety branch is still
\* there, with no new commit.
C12_SaveFailureRollsBack ==
    (pc \in Ended /\ flow = "safe_save" /\ Succeeded("checkout -b")
        /\ (Failed("add -A") \/ Failed("commit")))
    => /\ Times("checkout") = 1
       /\ LastCall.cmd = "checkout" /\ LastCall.arg = original_branch
       /\ out = <<Line("Error: Could not save changes")>>
       /\ exit = 1
       /\ SafetyBranchLeftEmpty

\* C12 for the runs in which git was found at every call: staging or
\* committing exits non-zero, and the one unchecked checkout of the captured
\* branch succeeds or exits non-zero.
C12_NonZeroSaveRollsBack ==
    (pc \in Ended /\ flow = "safe_save" /\ Succeeded("checkout -b")
        /\ (ExitedNonZero("add -A") \/ ExitedNonZero("commit"))
        /\ ToolPresent)
    => /\ Times("checkout") = 1
       /\ LastCall.cmd = "checkout" /\ LastCall.arg = original_branch
       /\ out = <<Line("Error: Could not save changes")>>
       /\ exit = 1
       /\ exc = "none"
       /\ SafetyBranchLeftEmpty

\* The rollback checkout itself exits non-zero, after a failed commit.
C12_RollbackFails ==
    /\ pc = "done" /\ flow = "safe_save" /\ ExitedNonZero("commit")
    /\ ExitedNonZero("checkout") /\ current = safety_branch
    /\ out = <<Line("Error: Could not save changes")>> /\ exit = 1

\* The checkpoint commit of the run is the head of the safety branch.
CheckpointOnSafetyBranch ==
    /\ safety_branch \in DOMAIN branches
    /\ Len(commits) = Len(start.commits) + 1
    /\ branches[safety_branch] = Len(commits)
    /\ commits[Len(commits)].msg = "Safety checkpoint"
    /\ commits[Len(commits)].files = start.changes

\* C13: when the final switch back to the original branch fails, safe-save
\* prints "Error: Could not switch back to original branch" and exits with
\* status 1, and in that final state the checkpoint commit with the saved
\* changes is on the safety branch, which is still the current branch.
C13_SwitchBackFailureKeepsCommit ==
    (pc \in Ended /\ flow = "safe_save" /\ Succeeded("commit")
        /\ Failed("checkout"))
    => /\ out = <<Line("Error: Could not switch back to original branch")>>
       /\ exit = 1
       /\ CheckpointOnSafetyBranch
       /\ current = safety_branch

\* C13 for a final checkout that exits non-zero.
C13_NonZeroSwitchBackKeepsCommit ==
    (pc \in Ended /\ flow = "safe_save" /\ Succeeded("commit")
        /\ ExitedNonZero("checkout"))
    => /\ out = <<Line("Error: Could not switch back to original branch")>>
       /\ exit = 1
       /\ exc = "none"
       /\ CheckpointOnSafetyBranch
       /\ current = safety_branch

\* The switch back to an existing original branch exits non-zero.
C13_SwitchBackFails ==
    /\ pc = "done" /\ flow = "safe_save" /\ Succeeded("commit")
    /\ ExitedNonZero("checkout") /\ original_branch = start.current
    /\ commits[branches[safety_branch]].files = Files
    /\ current # start.current

\* C14: the two probes fail in opposite directions. A failed repository
\* check stops the flow as "Not a git repo" before any status call; a status
\* call that exits non-zero after a passed repository check counts as
\* uncommitted changes: pre-pull prints the unsaved-work warning and exits 1
\* without a further call, and safe-save does not print "No changes to save"
\* but goes on with the checkpoint steps, up to the creation of the safety
\* branch when git is found at each of them.
C14_ProbesFailOppositeWays ==
    /\ (pc \in Ended /\ flow \in Flows /\ Failed("rev-parse --git-dir"))
       => /\ out # <<>> /\ out[1].text = "Not a git repo"
          /\ exit = 1
          /\ ~Issued("status --porcelain")
    /\ (pc \in Ended /\ flow \in PrePullFlows /\ RepoCheckPassed
            /\ CallEnded(2, "status --porcelain", "nonzero"))
       => /\ out # <<>> /\ out[1].text = Warning
          /\ SafeToGet \notin Texts(out)
          /\ exit = 1
          /\ exc = "none"
          /\ Len(calls) = 2
    /\ (pc \in Ended /\ flow = "safe_save" /\ RepoCheckPassed
            /\ CallEnded(2, "status --porcelain", "nonzero"))
       => /\ "No changes to save" \notin Texts(out)
          /\ Len(calls) >= 3 /\ calls[3].cmd = "rev-parse HEAD"
          /\ ToolPresent => Issued("checkout -b")

\* The status call exits non-zero on a clean tree, and safe-save still
\* makes the safety branch.
C14_FailOpenOnCleanTree ==
    /\ pc = "done" /\ flow = "safe_save" /\ start.changes = {}
    /\ CallEnded(2, "status --porcelain", "nonzero")
    /\ Succeeded("checkout -b")
    /\ safety_branch \in DOMAIN branches

\* has_unsaved_work() returned False: the status call succeeded and wrote
\* nothing but whitespace.
DirtyCheckPassed == StatusReported /\ ~HasOutput(calls[2].stdout)

LastLine == out[Len(out)]

\* C15: once the dirty-work check has passed, every pre-pull run exits with
\* status 0 whatever the upstream, fetch and behind-count calls do, the
\* decision variant printing "Decision: Safe to get updates" last; so a
\* pre-pull run exits 0 exactly when the repository check passed and the
\* status call found the working tree clean.
C15_ResultIgnoresStageThree ==
    (pc \in Ended /\ flow \in PrePullFlows)
    => /\ DirtyCheckPassed
          => /\ exit = 0
             /\ flow = "main"
                => /\ out # <<>>
                   /\ LastLine.text = "Decision: Safe to get updates"
       /\ exit = 0 <=> DirtyCheckPassed

\* C15 for the runs in which git was found at every call: no upstream, a
\* fetch or a count that exits non-zero, 0 behind and n > 0 behind all end
\* with status 0.
C15_ResultIgnoresStageThreeExits ==
    (pc \in Ended /\ flow \in PrePullFlows /\ ToolPresent)
    => /\ DirtyCheckPassed
          => /\ exit = 0
             /\ exc = "none"
             /\ flow = "main"
                => /\ out # <<>>
                   /\ LastLine.text = "Decision: Safe to get updates"
       /\ exit = 0 <=> DirtyCheckPassed

\* Updates are waiting behind a failed fetch, and the decision is "safe".
C15_BehindAndSafe ==
    /\ pc = "done" /\ flow = "main" /\ DirtyCheckPassed
    /\ ExitedNonZero("fetch") /\ Succeeded("rev-list --count")
    /\ UpdatesYes \in Texts(out)
    /\ LastLine.text = "Decision: Safe to get updates" /\ exit = 0

\* The positions in the output of the "Teammate updates available" lines.
UpdatesLines ==
    {i \in 1..Len(out) : out[i].text \in {UpdatesYes, UpdatesNo}}

\* The count call succeeded and wrote a number greater than 0.
CountedBehind ==
    \E i \in 1..Len(calls) :
        /\ calls[i].cmd = "rev-list --count" /\ calls[i].res = "ok"
        /\ ParseInt(Strip(calls[i].stdout)) > 0

\* The fetch and then the count were issued once each, right after the
\* upstream call, and one "Teammate updates available" line was printed:
\* "yes" exactly when the count succeeded with a number greater than 0.
FetchedCountedReported ==
    /\ Len(calls) = 5
    /\ calls[4].cmd = "fetch" /\ calls[5].cmd = "rev-list --count"
    /\ Cardinality(UpdatesLines) = 1
    /\ UpdatesYes \in Texts(out) <=> CountedBehind
    /\ exit = 0

\* C16: when the upstream resolves, pre-pull issues the fetch once and then
\* the behind-count once, whether or not the fetch succeeded, and prints
\* exactly one "Teammate updates available" line: "yes" if and only if the
\* count call succeeds with a number greater than 0, "no" otherwise; no
\* failure of the two calls ends the run as an error.
C16_FetchThenCountOneLine ==
    (pc \in Ended /\ flow \in PrePullFlows
        /\ Succeeded("rev-parse @{upstream}"))
    => FetchedCountedReported /\ exc = "none"

\* C16 for the runs in which git was found at every call: the fetch and
\* the count succeed or exit non-zero.
C16_NonZeroFetchThenCountOneLine ==
    (pc \in Ended /\ flow \in PrePullFlows
        /\ Succeeded("rev-parse @{upstream}") /\ ToolPresent)
    => FetchedCountedReported /\ exc = "none"

\* The fetch exits non-zero, the count is made all the same and fails too.
C16_BothFail ==
    /\ pc = "done" /\ flow = "saftey.main"
    /\ ExitedNonZero("fetch") /\ ExitedNonZero("rev-list --count")
    /\ LastLine.text = UpdatesNo /\ exit = 0

\* Every checkout of the run, rollback or final, was given "main".
SwitchBacksTargetMain ==
    \A i \in 1..Len(calls) :
        calls[i].cmd = "checkout" => calls[i].arg = MainBranch

\* C17: when reading the current branch name fails, safe-save does not
\* stop: it issues the creation of the safety branch with "main" as the
\* captured original branch, and every later switch back, rollback or
\* final, is a checkout of "main".
C17_FallbackMain ==
    (pc \in Ended /\ flow = "safe_save" /\ Failed("rev-parse HEAD"))
    => /\ Issued("checkout -b")
       /\ original_branch = MainBranch
       /\ SwitchBacksTargetMain

\* C17 for a branch-name read that exits non-zero.
C17_NonZeroReadFallbackMain ==
    (pc \in Ended /\ flow = "safe_save" /\ ExitedNonZero("rev-parse HEAD"))
    => /\ Issued("checkout -b")
       /\ original_branch = MainBranch
       /\ SwitchBacksTargetMain

\* The read fails on branch dev, the checkpoint is made and the final
\* switch goes to main.
C17_EndsOnMain ==
    /\ pc = "done" /\ flow = "safe_save" /\ ExitedNonZero("rev-parse HEAD")
    /\ start.current = DevBranch /\ Succeeded("commit")
    /\ LastCall.cmd = "checkout" /\ LastCall.arg = MainBranch
    /\ LastCall.res = "ok" /\ current = MainBranch

\* The read fails and the rollback after a failed commit goes to main.
C17_RollsBackToMain ==
    /\ pc = "done" /\ flow = "safe_save" /\ ExitedNonZero("rev-parse HEAD")
    /\ ExitedNonZero("commit")
    /\ LastCall.cmd = "checkout" /\ LastCall.arg = MainBranch

\* The most calls a flow makes: five in pre-pull, seven in safe-save.
MostCalls == IF flow = "safe_save" THEN 7 ELSE 5

\* C18: no external call is retried. At every point of a pre-pull or
\* safe-save run each external command, the checkout of the original branch
\* included, has been issued at most once whatever the outcomes, so a run
\* makes at most five (pre-pull) or seven (safe-save) calls.
C18_NoRetry ==
    flow \in Flows
    => /\ \A i, j \in 1..Len(calls) :
             calls[i].cmd = calls[j].cmd => i = j
       /\ Len(calls) <= MostCalls

\* A whole safe-save run with two failed calls, neither tried again.
C18_FailedCallsNotRetried ==
    /\ pc = "done" /\ flow = "safe_save" /\ Len(calls) = 7
    /\ calls[3].res = "nonzero" /\ calls[7].res = "nonzero"
    /\ Times("rev-parse HEAD") = 1 /\ Times("checkout") = 1

\* The commands that only read the local repository.
ReadOnlyCommands ==
    {"rev-parse --git-dir", "status --porcelain", "rev-parse @{upstream}",
     "fetch", "rev-list --count"}

\* C19: pre-pull only reads the repository. At every point of every
\* pre-pull run, whatever the outcomes of its calls, no checkout, branch
\* creation, add or commit has been issued, and the current branch, the
\* local branches with their heads, the commits and the uncommitted changes
\* are as they were when the run began.
C19_PrePullReadOnly ==
    flow \in PrePullFlows
    => /\ Cmds(calls) \subseteq ReadOnlyCommands
       /\ Cmds(calls) \cap {"checkout", "checkout -b", "add -A", "commit"} = {}
       /\ Repo = start

\* A pre-pull run that went through the fetch and the count, on a
\* repository with two branches.
C19_FetchedAndUntouched ==
    /\ pc = "done" /\ flow = "main" /\ Succeeded("fetch")
    /\ Succeeded("rev-list --count") /\ UpdatesYes \in Texts(out)
    /\ DOMAIN branches = {MainBranch, DevBranch}
    /\ Repo = start

\* C20: after a safe-save that ended with "Safety checkpoint created" the
\* working tree is clean, every branch that existed at the start, the
\* original one included, has the head it had, and the changes that were
\* uncommitted are in the one new commit, which only the safety branch
\* holds and which is not checked out; the safe-save run that comes right
\* after, once its status call has reported, prints "No changes to save" and
\* exits 0, and the pre-pull run that comes right after passes the
\* dirty-work check.
C20_CheckpointLeavesCleanTree ==
    /\ (pc = "done" /\ flow = "safe_save" /\ Created \in Texts(out))
       => /\ changes = {} /\ staged = {}
          /\ ~HasOutput(Porcelain(changes))
          /\ \A b \in DOMAIN start.branches : branches[b] = start.branches[b]
          /\ CheckpointOnSafetyBranch
          /\ start.changes # {}
          /\ \A b \in DOMAIN branches :
                branches[b] = Len(commits) => b = safety_branch
          /\ current # safety_branch
          /\ exit = 0
    /\ (checkpointed /\ pc \in Ended /\ flow = "safe_save" /\ StatusReported)
       => /\ out = <<Line("No changes to save")>>
          /\ exit = 0
          /\ Repo = start
    /\ (checkpointed /\ pc \in Ended /\ flow \in PrePullFlows
            /\ StatusReported)
       => /\ DirtyCheckPassed
          /\ out # <<>> /\ out[1].text = SafeToGet
          /\ Warning \notin Texts(out)

\* The safe-save right after a checkpoint of both files finds nothing to
\* save.
C20_NothingLeftToSave ==
    /\ checkpointed /\ pc = "done" /\ flow = "safe_save"
    /\ out = <<Line("No changes to save")>>
    /\ \E b \in DOMAIN branches :
          /\ HasSafetyForm(b)
          /\ commits[branches[b]].files = Files
          /\ commits[branches[b]].msg = "Safety checkpoint"

====
